---- MODULE Spec2Model ----
(***************************************************************************)
(* go-libcache: an in-process key-value cache with per-entry expiration,   *)
(* a background sweep goroutine (gcLoop) and gob snapshots (Save / Load).  *)
(* The model follows src/cache.go statement by statement: every exported   *)
(* method is split at the points where it acquires the RWMutex, so that    *)
(* callers and the sweep goroutine interleave as goroutines do.            *)
(***************************************************************************)
EXTENDS Integers, Sequences, FiniteSets, TLC

\* ------------------------------------------------------------------ bounds
\* The clock runs from 1 to MaxTime (time.Now().UnixNano(), scaled).
MaxTime == 3
\* Positive ttl arguments are 1..MaxDur.
MaxDur == 1

\* ------------------------------------------------------- program constants
NoExpiration == -1
DefaultExpiration == 0
\* The gcInterval argument of NewCache (period of the sweep ticker).
gcInterval == 2

\* ------------------------------------------------------------------- sets
Callers == {"c1", "c2"}
Gc == "gc"
Procs == Callers \cup {Gc}
Keys == {"a", "b"}
\* The nil interface{}: what Get returns when it finds nothing; as a payload
\* it is a value gob.Register cannot register.
Nil == "nil"
Values == {"x", "y"}
Objects == Values \cup {Nil}
Durs == {NoExpiration, DefaultExpiration} \cup (1 .. MaxDur)
\* The zero value of a chan field: a nil channel.
NilChan == "nil"

EmptyMap == [k \in {} |-> 0]

VARIABLES
  now,               \* the wall clock
  defaultExpiration, \* Cache.defaultExpiration
  items,             \* Cache.items: a function from the keys present to Items
  mux,               \* Cache.mux: who holds it and who waits in it (see NewMutex)
  stopGc,            \* Cache.stopGc
  ticker,            \* gcLoop's time.Ticker: [active, next, C]
  pc,                \* where each goroutine stands
  call,              \* the arguments of the call each goroutine is in
  loc,               \* the locals of that call
  ret,               \* what the call returned
  stream,            \* the bytes the last Save wrote
  hist               \* per key: the Set that wrote the entry last, if a Set did (history)

vars == <<now, defaultExpiration, items, mux, stopGc, ticker, pc, call, loc, ret,
          stream, hist>>

\* ---------------------------------------------------------------- helpers
NoCall == [op |-> "none", key |-> "", val |-> Nil, dur |-> 0, rd |-> <<>>,
           free |-> FALSE, conc |-> {}]
NoLoc == [expir |-> 0, now |-> 0, items |-> EmptyMap]
NoRet == [val |-> Nil, found |-> FALSE, err |-> "", n |-> 0, at |-> 0]
NoHist == [op |-> "none", val |-> Nil, at |-> 0, ttl |-> 0]

\* The history entry of a Set(key, v, ttl) called at instant t: the call instant
\* is kept for a positive ttl, the only case in which it decides anything.
SetHist(v, ttl, t) ==
  [op |-> "Set", val |-> v, at |-> IF ttl > 0 THEN t ELSE 0, ttl |-> ttl]

Item(object, expiration) == [Object |-> object, Expiration |-> expiration]

\* items[key] = item
Put(its, key, item) ==
  [k \in (DOMAIN its) \cup {key} |-> IF k = key THEN item ELSE its[k]]

\* delete(items, key)
delete(its, key) == [k \in (DOMAIN its) \ {key} |-> its[k]]

\* Expired with the comparison turned round.
Expired_Inverted(thisItem, t) ==
  IF thisItem.Expiration = 0 THEN FALSE ELSE t < thisItem.Expiration

\* Expired without the case of the zero expiration.
Expired_NoZeroCase(thisItem, t) == t > thisItem.Expiration

\* Item.Expired, with t the value of time.Now().UnixNano()
Expired(thisItem, t) ==
  IF thisItem.Expiration = 0 THEN FALSE ELSE t > thisItem.Expiration

\* The expiration computed without the test dur > 0.
ResolveExpir_NoSignCheck(default, dur, t) ==
  LET d == IF dur = DefaultExpiration THEN default ELSE dur
  IN  t + d

\* The expiration computed from the dur argument alone.
ResolveExpir_IgnoresDefault(default, dur, t) ==
  IF dur > 0 THEN t + dur ELSE 0

\* The expiration set and Set compute from the dur argument at instant t.
ResolveExpir(default, dur, t) ==
  LET d == IF dur = DefaultExpiration THEN default ELSE dur
  IN  IF d > 0 THEN t + d ELSE 0

\* A set that leaves an entry already in the map as it is.
set_KeepsExisting(its, default, key, value, dur, t) ==
  IF key \in DOMAIN its THEN its
  ELSE Put(its, key, Item(value, ResolveExpir(default, dur, t)))

\* Cache.set (no locking): the map after items[key] = Item{value, expir}
set(its, default, key, value, dur, t) ==
  Put(its, key, Item(value, ResolveExpir(default, dur, t)))

\* get without the expiration check.
get_NoExpiry(its, key, t) ==
  IF key \notin DOMAIN its THEN <<Nil, FALSE>> ELSE <<its[key].Object, TRUE>>

\* Cache.get (no locking): <<object, found>>
get(its, key, t) ==
  IF key \notin DOMAIN its THEN <<Nil, FALSE>>
  ELSE IF Expired(its[key], t) THEN <<Nil, FALSE>>
  ELSE <<its[key].Object, TRUE>>

\* The body of Cache.Get between RLock and RUnlock: <<object, found>>
GetBody(its, key, t) ==
  IF key \notin DOMAIN its THEN <<Nil, FALSE>>
  ELSE IF Expired(its[key], t) THEN <<Nil, FALSE>>
  ELSE <<its[key].Object, TRUE>>

\* The sweep without the test Expiration > 0.
Sweep_NoZeroCheck(its, nowS) ==
  [k \in {x \in DOMAIN its : ~(nowS > its[x].Expiration)} |-> its[k]]

\* A sweep that also removes the entries whose deadline is the sampled instant.
Sweep_AtDeadline(its, nowS) ==
  [k \in {x \in DOMAIN its : ~(its[x].Expiration > 0 /\ nowS >= its[x].Expiration)}
     |-> its[k]]

\* The loop of DeleteExpired, with nowS the instant sampled before the lock.
Sweep(its, nowS) ==
  [k \in {x \in DOMAIN its : ~(its[x].Expiration > 0 /\ nowS > its[x].Expiration)}
     |-> its[k]]

\* A merge that restores every decoded entry.
Merge_InsertsAll(its, decoded, t) ==
  [k \in (DOMAIN its) \cup (DOMAIN decoded) |->
     IF k \in DOMAIN decoded THEN decoded[k] ELSE its[k]]

\* The loop of Load: decoded entries overwrite the keys that are present and
\* not expired at instant t.
Merge(its, decoded, t) ==
  [k \in DOMAIN its |->
     IF k \in DOMAIN decoded /\ ~Expired(its[k], t) THEN decoded[k] ELSE its[k]]

\* Lock that does not wait for another writer.
CanLock_IgnoresWriter(m) == m.r = 0

\* Lock that does not wait for the readers.
CanLock_IgnoresReaders(m) == m.w = 0

\* sync.RWMutex: w is 1 while a writer holds it, r counts the readers holding
\* it. ann is the goroutine whose Lock call has got past the other writers and
\* has announced itself to the readers (it waits for them to leave, or holds
\* the lock); blocked are the goroutines whose RLock call arrived after that
\* announcement; granted are the ones Unlock has let in since.
NoOne == "none"
NewMutex == [w |-> 0, r |-> 0, ann |-> NoOne, blocked |-> {}, granted |-> {}]

CanLock(m) == m.w = 0 /\ m.r = 0
CanRLock(m) == m.w = 0
Locked(m) == [m EXCEPT !.w = 1]
\* Unlock lets in every reader that waits behind the writer.
Unlocked(m) ==
  [m EXCEPT !.w = 0, !.ann = NoOne, !.granted = @ \cup m.blocked, !.blocked = {}]
RLocked(m) == [m EXCEPT !.r = @ + 1]
RUnlocked(m) == [m EXCEPT !.r = @ - 1]

\* ------------------------------------------------------------- gob streams
\* A stream is <<n, r1, ..., rn>>: the entry count, then one record per entry.
\* gob leaves a zero field out: a record is <<key, object>> when the
\* expiration is 0 and <<key, object, expiration>> otherwise.
Record(key, item) ==
  IF item.Expiration = 0 THEN <<key, item.Object>>
  ELSE <<key, item.Object, item.Expiration>>

\* The orders a range over the map may take.
Orders(its) ==
  {s \in [1 .. Cardinality(DOMAIN its) -> DOMAIN its] :
     \A i, j \in DOMAIN s : i # j => s[i] # s[j]}

Encode(its, order) ==
  <<Cardinality(DOMAIN its)>> \o [i \in DOMAIN order |-> Record(order[i], its[order[i]])]

\* gob.Register panics on a nil value.
Registrable(its) == \A k \in DOMAIN its : its[k].Object # Nil

\* The stream holds a whole encoded map.
WellFormed(s) == Len(s) >= 1 /\ s[1] = Len(s) - 1

\* A decoder that does not restore the expiration.
DecodeItem_DropsExpiration(r) == Item(r[2], 0)

DecodeItem(r) == Item(r[2], IF Len(r) = 3 THEN r[3] ELSE 0)

\* A decoder that keeps the records it could read from a short stream.
Decode_Partial(s) ==
  [ok |-> Len(s) >= 1,
   items |-> [k \in {s[i][1] : i \in 2 .. Len(s)} |->
                DecodeItem(s[CHOOSE i \in 2 .. Len(s) : s[i][1] = k])]]

\* gob Decode into an empty map: [ok, items]
Decode(s) ==
  IF WellFormed(s)
  THEN [ok |-> TRUE,
        items |-> [k \in {s[i][1] : i \in 2 .. Len(s)} |->
                     DecodeItem(s[CHOOSE i \in 2 .. Len(s) : s[i][1] = k])]]
  ELSE [ok |-> FALSE, items |-> EmptyMap]

\* What a reader handed to Load may hold: the saved stream or a truncation.
Readers(s) == {SubSeq(s, 1, i) : i \in 0 .. Len(s)}

\* ------------------------------------------------------------------- Init
\* NewCache: the struct literal sets defaultExpiration, gcInterval and items;
\* stopGc keeps its zero value. The gcLoop goroutine is started, not yet run.
NewCacheStopGc == NilChan

\* defaultExpiration is 0: an entry set with DefaultExpiration never expires.
Init ==
  /\ now = 1
  /\ defaultExpiration = 0
  /\ items = EmptyMap
  /\ mux = NewMutex
  /\ stopGc = NewCacheStopGc
  /\ ticker = [active |-> FALSE, next |-> 0, C |-> 0]
  /\ pc = [p \in Procs |-> IF p = Gc THEN "gc_start" ELSE "idle"]
  /\ call = [p \in Procs |-> NoCall]
  /\ loc = [p \in Procs |-> NoLoc]
  /\ ret = [p \in Procs |-> NoRet]
  /\ stream = <<>>
  /\ hist = [k \in Keys |-> NoHist]

\* The defaultExpiration arguments of NewCache: negative, zero, positive.
DefaultTTLs == (-1) .. MaxDur

\* NewCache(defaultExpiration, gcInterval) with any of these arguments.
InitTtl ==
  /\ now = 1
  /\ defaultExpiration \in DefaultTTLs
  /\ items = EmptyMap
  /\ mux = NewMutex
  /\ stopGc = NewCacheStopGc
  /\ ticker = [active |-> FALSE, next |-> 0, C |-> 0]
  /\ pc = [p \in Procs |-> IF p = Gc THEN "gc_start" ELSE "idle"]
  /\ call = [p \in Procs |-> NoCall]
  /\ loc = [p \in Procs |-> NoLoc]
  /\ ret = [p \in Procs |-> NoRet]
  /\ stream = <<>>
  /\ hist = [k \in Keys |-> NoHist]

\* ---------------------------------------------------------------- actions
Goto(p, l) == pc' = [pc EXCEPT ![p] = l]

\* The call returns r to its caller.
Finish(p, r) ==
  /\ pc' = [pc EXCEPT ![p] = "done"]
  /\ ret' = [ret EXCEPT ![p] = r]

\* The goroutines inside an Add of key k.
AddingNow(k) ==
  {q \in Callers : call[q].op = "Add" /\ call[q].key = k
                   /\ pc[q] \in {"Add_Lock", "Add_get", "Add_set"}}

\* The clock advances; a running ticker drops a tick into its channel (buffer 1).
Tick ==
  /\ now < MaxTime
  /\ now' = now + 1
  /\ ticker' = IF ticker.active /\ now + 1 >= ticker.next
               THEN [ticker EXCEPT !.C = 1, !.next = @ + gcInterval]
               ELSE ticker
  /\ UNCHANGED <<defaultExpiration, items, mux, stopGc, pc, call, loc, ret, stream, hist>>

\* The ticker goes on firing once the clock has reached MaxTime: the instants
\* after MaxTime are not told apart, a tick among them finds the buffer empty.
TickerFires ==
  /\ now = MaxTime
  /\ ticker.active
  /\ ticker.C = 0
  /\ ticker' = [ticker EXCEPT !.C = 1]
  /\ UNCHANGED <<now, defaultExpiration, items, mux, stopGc, pc, call, loc, ret, stream, hist>>

\* gcLoop: ticker := time.NewTicker(gcInterval)
GcStart ==
  /\ pc[Gc] = "gc_start"
  /\ ticker' = [active |-> TRUE, next |-> now + gcInterval, C |-> 0]
  /\ Goto(Gc, "gc_select")
  /\ UNCHANGED <<now, defaultExpiration, items, mux, stopGc, call, loc, ret, stream, hist>>

\* The cases of gcLoop's select that can proceed. A receive from a nil channel
\* never proceeds; a receive from a channel proceeds with a blocked sender.
SelectReady ==
  (IF ticker.C = 1 THEN {<<"tick", Gc>>} ELSE {})
    \cup (IF stopGc # NilChan
          THEN {<<"stop", p>> : p \in {q \in Callers : pc[q] = "StopGc_send"}}
          ELSE {})

\* A gcLoop that takes the tick and goes back to its select.
GcSelect_SkipsSweep ==
  /\ pc[Gc] = "gc_select"
  /\ ticker.C = 1
  /\ ticker' = [ticker EXCEPT !.C = 0]
  /\ UNCHANGED <<now, defaultExpiration, items, mux, stopGc, pc, call, loc, ret, stream, hist>>

\* gcLoop: one round of the select. On a tick it enters DeleteExpired, which
\* samples the clock first; on a stop it stops the ticker and returns.
GcSelect ==
  /\ pc[Gc] = "gc_select"
  /\ \E c \in SelectReady :
       IF c[1] = "tick"
       THEN /\ ticker' = [ticker EXCEPT !.C = 0]
            /\ Goto(Gc, "DeleteExpired_Lock")
            /\ call' = [call EXCEPT ![Gc] = [NoCall EXCEPT !.op = "DeleteExpired"]]
            /\ loc' = [loc EXCEPT ![Gc] = [NoLoc EXCEPT !.now = now]]
            /\ ret' = ret
       ELSE /\ ticker' = [ticker EXCEPT !.active = FALSE]
            /\ pc' = [pc EXCEPT ![Gc] = "gc_exited", ![c[2]] = "done"]
            /\ ret' = [ret EXCEPT ![c[2]] = NoRet]
            /\ UNCHANGED <<call, loc>>
  /\ UNCHANGED <<now, defaultExpiration, items, mux, stopGc, stream, hist>>

\* mux.Lock() at each of its call sites
AfterLock ==
  [Set_Lock |-> "Set_cs", Add_Lock |-> "Add_get", Replace_Lock |-> "Replace_get",
   Delete_Lock |-> "Delete_cs", DeleteExpired_Lock |-> "DeleteExpired_cs",
   Flush_Lock |-> "Flush_cs", Load_Lock |-> "Load_cs"]

Lock(p) ==
  /\ pc[p] \in DOMAIN AfterLock
  /\ CanLock(mux)
  /\ mux' = Locked(mux)
  /\ Goto(p, AfterLock[pc[p]])
  /\ UNCHANGED <<now, defaultExpiration, items, stopGc, ticker, call, loc, ret, stream, hist>>

\* mux.RLock() at each of its call sites
AfterRLock ==
  [Get_RLock |-> "Get_cs", Count_RLock |-> "Count_cs", Save_RLock |-> "Save_cs"]

RLock(p) ==
  /\ pc[p] \in DOMAIN AfterRLock
  /\ CanRLock(mux)
  /\ mux' = RLocked(mux)
  /\ Goto(p, AfterRLock[pc[p]])
  /\ UNCHANGED <<now, defaultExpiration, items, stopGc, ticker, call, loc, ret, stream, hist>>

\* mux.Lock() and mux.RLock() step by step, as sync.RWMutex schedules them.
\* Lock first gets past the other writers and announces itself to the readers.
Announce(p) ==
  /\ pc[p] \in DOMAIN AfterLock
  /\ mux.ann = NoOne
  /\ mux' = [mux EXCEPT !.ann = p]
  /\ UNCHANGED <<now, defaultExpiration, items, stopGc, ticker, pc, call, loc, ret, stream, hist>>

\* The announced writer takes the lock when the readers have left.
LockFair(p) ==
  /\ pc[p] \in DOMAIN AfterLock
  /\ mux.ann = p
  /\ mux.granted = {}
  /\ CanLock(mux)
  /\ mux' = Locked(mux)
  /\ Goto(p, AfterLock[pc[p]])
  /\ UNCHANGED <<now, defaultExpiration, items, stopGc, ticker, call, loc, ret, stream, hist>>

\* An RLock call that finds a writer announced waits for that writer's Unlock.
Block(p) ==
  /\ pc[p] \in DOMAIN AfterRLock
  /\ mux.ann # NoOne
  /\ p \notin mux.blocked \cup mux.granted
  /\ mux' = [mux EXCEPT !.blocked = @ \cup {p}]
  /\ UNCHANGED <<now, defaultExpiration, items, stopGc, ticker, pc, call, loc, ret, stream, hist>>

\* An RLock call gets the lock when no writer is announced, or when an Unlock
\* has let it in.
RLockFair(p) ==
  /\ pc[p] \in DOMAIN AfterRLock
  /\ p \in mux.granted \/ mux.ann = NoOne
  /\ CanRLock(mux)
  /\ mux' = [RLocked(mux) EXCEPT !.granted = @ \ {p}]
  /\ Goto(p, AfterRLock[pc[p]])
  /\ UNCHANGED <<now, defaultExpiration, items, stopGc, ticker, call, loc, ret, stream, hist>>

\* Set: the expiration is computed before the lock is taken.
SetCall(p, k, v, d) ==
  /\ pc[p] = "idle"
  /\ call' = [call EXCEPT ![p] = [NoCall EXCEPT !.op = "Set", !.key = k, !.val = v, !.dur = d]]
  /\ loc' = [loc EXCEPT ![p] = [NoLoc EXCEPT !.expir = ResolveExpir(defaultExpiration, d, now),
                                             !.now = now]]
  /\ Goto(p, "Set_Lock")
  /\ UNCHANGED <<now, defaultExpiration, items, mux, stopGc, ticker, ret, stream, hist>>

SetWrite(p) ==
  /\ pc[p] = "Set_cs"
  /\ items' = Put(items, call[p].key, Item(call[p].val, loc[p].expir))
  /\ hist' = [hist EXCEPT ![call[p].key] = SetHist(call[p].val, call[p].dur, loc[p].now)]
  /\ mux' = Unlocked(mux)
  /\ Finish(p, NoRet)
  /\ UNCHANGED <<now, defaultExpiration, stopGc, ticker, call, loc, stream>>

GetCall(p, k) ==
  /\ pc[p] = "idle"
  /\ call' = [call EXCEPT ![p] = [NoCall EXCEPT !.op = "Get", !.key = k]]
  /\ Goto(p, "Get_RLock")
  /\ UNCHANGED <<now, defaultExpiration, items, mux, stopGc, ticker, loc, ret, stream, hist>>

\* A Get that deletes the expired entry it comes across.
GetRead_Evicts(p) ==
  /\ pc[p] = "Get_cs"
  /\ LET r == GetBody(items, call[p].key, now)
     IN  Finish(p, [NoRet EXCEPT !.val = r[1], !.found = r[2], !.at = now])
  /\ items' = IF call[p].key \in DOMAIN items /\ Expired(items[call[p].key], now)
              THEN delete(items, call[p].key) ELSE items
  /\ mux' = RUnlocked(mux)
  /\ UNCHANGED <<now, defaultExpiration, stopGc, ticker, call, loc, stream, hist>>

GetRead(p) ==
  /\ pc[p] = "Get_cs"
  /\ LET r == GetBody(items, call[p].key, now)
     IN  Finish(p, [NoRet EXCEPT !.val = r[1], !.found = r[2], !.at = now])
  /\ mux' = RUnlocked(mux)
  /\ UNCHANGED <<now, defaultExpiration, items, stopGc, ticker, call, loc, stream, hist>>

\* Add: Lock, get, then either Unlock and the error, or set and Unlock.
AddCall(p, k, v, d) ==
  /\ pc[p] = "idle"
  /\ call' = [q \in Procs |->
                IF q = p
                THEN [NoCall EXCEPT !.op = "Add", !.key = k, !.val = v, !.dur = d,
                                    !.free = ~get(items, k, now)[2],
                                    !.conc = AddingNow(k)]
                ELSE IF q \in AddingNow(k)
                THEN [call[q] EXCEPT !.conc = @ \cup {p}]
                ELSE call[q]]
  /\ Goto(p, "Add_Lock")
  /\ UNCHANGED <<now, defaultExpiration, items, mux, stopGc, ticker, loc, ret, stream, hist>>

\* An Add that returns its error without Unlock.
AddGet_KeepsLock(p) ==
  /\ pc[p] = "Add_get"
  /\ IF get(items, call[p].key, now)[2]
     THEN Finish(p, [NoRet EXCEPT !.err = "AlreadyExists", !.at = now])
     ELSE Goto(p, "Add_set") /\ ret' = ret
  /\ UNCHANGED <<now, defaultExpiration, items, mux, stopGc, ticker, call, loc, stream, hist>>

AddGet(p) ==
  /\ pc[p] = "Add_get"
  /\ IF get(items, call[p].key, now)[2]
     THEN /\ mux' = Unlocked(mux)
          /\ Finish(p, [NoRet EXCEPT !.err = "AlreadyExists", !.at = now])
     ELSE /\ Goto(p, "Add_set")
          /\ UNCHANGED <<mux, ret>>
  /\ UNCHANGED <<now, defaultExpiration, items, stopGc, ticker, call, loc, stream, hist>>

\* The result keeps, as history, whether the Add overwrote an expired entry.
AddSet(p) ==
  /\ pc[p] = "Add_set"
  /\ items' = set(items, defaultExpiration, call[p].key, call[p].val, call[p].dur, now)
  /\ hist' = [hist EXCEPT ![call[p].key] = NoHist]
  /\ mux' = Unlocked(mux)
  /\ Finish(p, [NoRet EXCEPT !.err = "nil", !.at = now,
                             !.found = call[p].key \in DOMAIN items])
  /\ UNCHANGED <<now, defaultExpiration, stopGc, ticker, call, loc, stream>>

\* Replace: Lock, get, then either Unlock and the error, or set and Unlock.
ReplaceCall(p, k, v, d) ==
  /\ pc[p] = "idle"
  /\ call' = [call EXCEPT ![p] = [NoCall EXCEPT !.op = "Replace", !.key = k, !.val = v, !.dur = d]]
  /\ Goto(p, "Replace_Lock")
  /\ UNCHANGED <<now, defaultExpiration, items, mux, stopGc, ticker, loc, ret, stream, hist>>

ReplaceGet(p) ==
  /\ pc[p] = "Replace_get"
  /\ IF ~get(items, call[p].key, now)[2]
     THEN /\ mux' = Unlocked(mux)
          /\ Finish(p, [NoRet EXCEPT !.err = "NotFound", !.at = now])
     ELSE /\ Goto(p, "Replace_set")
          /\ UNCHANGED <<mux, ret>>
  /\ UNCHANGED <<now, defaultExpiration, items, stopGc, ticker, call, loc, stream, hist>>

ReplaceSet(p) ==
  /\ pc[p] = "Replace_set"
  /\ items' = set(items, defaultExpiration, call[p].key, call[p].val, call[p].dur, now)
  /\ hist' = [hist EXCEPT ![call[p].key] = NoHist]
  /\ mux' = Unlocked(mux)
  /\ Finish(p, [NoRet EXCEPT !.err = "nil", !.at = now])
  /\ UNCHANGED <<now, defaultExpiration, stopGc, ticker, call, loc, stream>>

DeleteCall(p, k) ==
  /\ pc[p] = "idle"
  /\ call' = [call EXCEPT ![p] = [NoCall EXCEPT !.op = "Delete", !.key = k]]
  /\ Goto(p, "Delete_Lock")
  /\ UNCHANGED <<now, defaultExpiration, items, mux, stopGc, ticker, loc, ret, stream, hist>>

DeleteWrite(p) ==
  /\ pc[p] = "Delete_cs"
  /\ items' = delete(items, call[p].key)
  /\ hist' = [hist EXCEPT ![call[p].key] = NoHist]
  /\ mux' = Unlocked(mux)
  /\ Finish(p, NoRet)
  /\ UNCHANGED <<now, defaultExpiration, stopGc, ticker, call, loc, stream>>

\* DeleteExpired called by a caller: now is sampled before the lock is taken.
DeleteExpiredCall(p) ==
  /\ pc[p] = "idle"
  /\ call' = [call EXCEPT ![p] = [NoCall EXCEPT !.op = "DeleteExpired"]]
  /\ loc' = [loc EXCEPT ![p] = [NoLoc EXCEPT !.now = now]]
  /\ Goto(p, "DeleteExpired_Lock")
  /\ UNCHANGED <<now, defaultExpiration, items, mux, stopGc, ticker, ret, stream, hist>>

\* The sweep itself, by a caller or by gcLoop (which goes back to its select).
DeleteExpiredSweep(p) ==
  /\ pc[p] = "DeleteExpired_cs"
  /\ items' = Sweep(items, loc[p].now)
  /\ mux' = Unlocked(mux)
  /\ IF p = Gc
     THEN /\ Goto(p, "gc_select")
          /\ call' = [call EXCEPT ![p] = NoCall]
          /\ loc' = [loc EXCEPT ![p] = NoLoc]
          /\ ret' = ret
     ELSE /\ Finish(p, [NoRet EXCEPT !.at = now])
          /\ UNCHANGED <<call, loc>>
  /\ UNCHANGED <<now, defaultExpiration, stopGc, ticker, stream, hist>>

CountCall(p) ==
  /\ pc[p] = "idle"
  /\ call' = [call EXCEPT ![p] = [NoCall EXCEPT !.op = "Count"]]
  /\ Goto(p, "Count_RLock")
  /\ UNCHANGED <<now, defaultExpiration, items, mux, stopGc, ticker, loc, ret, stream, hist>>

\* A Count that leaves the expired entries out.
CountRead_LiveOnly(p) ==
  /\ pc[p] = "Count_cs"
  /\ Finish(p, [NoRet EXCEPT !.n = Cardinality({k \in DOMAIN items : ~Expired(items[k], now)}),
                             !.at = now])
  /\ mux' = RUnlocked(mux)
  /\ UNCHANGED <<now, defaultExpiration, items, stopGc, ticker, call, loc, stream, hist>>

CountRead(p) ==
  /\ pc[p] = "Count_cs"
  /\ Finish(p, [NoRet EXCEPT !.n = Cardinality(DOMAIN items), !.at = now])
  /\ mux' = RUnlocked(mux)
  /\ UNCHANGED <<now, defaultExpiration, items, stopGc, ticker, call, loc, stream, hist>>

FlushCall(p) ==
  /\ pc[p] = "idle"
  /\ call' = [call EXCEPT ![p] = [NoCall EXCEPT !.op = "Flush"]]
  /\ Goto(p, "Flush_Lock")
  /\ UNCHANGED <<now, defaultExpiration, items, mux, stopGc, ticker, loc, ret, stream, hist>>

\* A Flush that discards the expired entries only.
FlushWrite_ExpiredOnly(p) ==
  /\ pc[p] = "Flush_cs"
  /\ items' = Sweep(items, now)
  /\ hist' = [k \in Keys |-> NoHist]
  /\ mux' = Unlocked(mux)
  /\ Finish(p, [NoRet EXCEPT !.n = Cardinality(DOMAIN items)])
  /\ UNCHANGED <<now, defaultExpiration, stopGc, ticker, call, loc, stream>>

\* Flush returns nothing; n keeps, as history, how many entries it discarded.
FlushWrite(p) ==
  /\ pc[p] = "Flush_cs"
  /\ items' = EmptyMap
  /\ hist' = [k \in Keys |-> NoHist]
  /\ mux' = Unlocked(mux)
  /\ Finish(p, [NoRet EXCEPT !.n = Cardinality(DOMAIN items)])
  /\ UNCHANGED <<now, defaultExpiration, stopGc, ticker, call, loc, stream>>

\* Save: RLock, register every payload (a panic is recovered into the error),
\* encode the map into the writer.
SaveCall(p) ==
  /\ pc[p] = "idle"
  /\ call' = [call EXCEPT ![p] = [NoCall EXCEPT !.op = "Save"]]
  /\ Goto(p, "Save_RLock")
  /\ UNCHANGED <<now, defaultExpiration, items, mux, stopGc, ticker, loc, ret, stream, hist>>

SaveEncode(p) ==
  /\ pc[p] = "Save_cs"
  /\ IF Registrable(items)
     THEN /\ \E order \in Orders(items) : stream' = Encode(items, order)
          /\ Finish(p, [NoRet EXCEPT !.err = "nil"])
     ELSE /\ stream' = <<>>
          /\ Finish(p, [NoRet EXCEPT !.err = "SerializationError"])
  /\ mux' = RUnlocked(mux)
  /\ UNCHANGED <<now, defaultExpiration, items, stopGc, ticker, call, loc, hist>>

\* Load: decode the reader into a fresh map; an error returns before the lock.
LoadCall(p, rd) ==
  /\ pc[p] = "idle"
  /\ call' = [call EXCEPT ![p] = [NoCall EXCEPT !.op = "Load", !.rd = rd]]
  /\ LET dec == Decode(rd)
     IN  IF dec.ok
         THEN /\ loc' = [loc EXCEPT ![p] = [NoLoc EXCEPT !.items = dec.items]]
              /\ Goto(p, "Load_Lock")
              /\ ret' = ret
         ELSE /\ Finish(p, [NoRet EXCEPT !.err = "DeserializationError"])
              /\ loc' = loc
  /\ UNCHANGED <<now, defaultExpiration, items, mux, stopGc, ticker, stream, hist>>

LoadMerge(p) ==
  /\ pc[p] = "Load_cs"
  /\ items' = Merge(items, loc[p].items, now)
  /\ hist' = [k \in Keys |->
                IF k \in DOMAIN items /\ k \in DOMAIN loc[p].items /\ ~Expired(items[k], now)
                THEN NoHist ELSE hist[k]]
  /\ mux' = Unlocked(mux)
  /\ Finish(p, [NoRet EXCEPT !.err = "nil", !.at = now])
  /\ UNCHANGED <<now, defaultExpiration, stopGc, ticker, call, loc, stream>>

\* StopGc: the send on stopGc blocks until gcLoop's select receives it.
StopGcCall(p) ==
  /\ pc[p] = "idle"
  /\ call' = [call EXCEPT ![p] = [NoCall EXCEPT !.op = "StopGc"]]
  /\ Goto(p, "StopGc_send")
  /\ UNCHANGED <<now, defaultExpiration, items, mux, stopGc, ticker, loc, ret, stream, hist>>

\* The caller takes the result and is free to call again.
Return(p) ==
  /\ pc[p] = "done"
  /\ pc' = [pc EXCEPT ![p] = "idle"]
  /\ call' = [q \in Procs |->
                IF q = p THEN NoCall ELSE [call[q] EXCEPT !.conc = @ \ {p}]]
  /\ loc' = [loc EXCEPT ![p] = NoLoc]
  /\ ret' = [ret EXCEPT ![p] = NoRet]
  /\ UNCHANGED <<now, defaultExpiration, items, mux, stopGc, ticker, stream, hist>>

\* ------------------------------------------------------- specifications
\* The steps of the sweep goroutine.
Reaper == GcStart \/ GcSelect \/ Lock(Gc) \/ DeleteExpiredSweep(Gc)

\* Callers P taking the lock they wait for, and taking their results.
Locks(P) ==
  \/ \E p \in P : Lock(p)
  \/ \E p \in P : Return(p)

\* Callers P using Set and Delete on keys K with payloads V and ttl arguments D.
Basic(P, K, V, D) ==
  \/ Locks(P)
  \/ \E p \in P, k \in K, v \in V, d \in D : SetCall(p, k, v, d)
  \/ \E p \in P : SetWrite(p)
  \/ \E p \in P, k \in K : DeleteCall(p, k)
  \/ \E p \in P : DeleteWrite(p)

\* Callers P using Get and Add.
GetAdd(P, K, V, D) ==
  \/ \E p \in P : RLock(p)
  \/ \E p \in P, k \in K : GetCall(p, k)
  \/ \E p \in P : GetRead(p)
  \/ \E p \in P, k \in K, v \in V, d \in D : AddCall(p, k, v, d)
  \/ \E p \in P : AddGet(p)
  \/ \E p \in P : AddSet(p)

\* Callers P using Replace, DeleteExpired, Count and Flush.
Others(P, K, V, D) ==
  \/ \E p \in P, k \in K, v \in V, d \in D : ReplaceCall(p, k, v, d)
  \/ \E p \in P : ReplaceGet(p)
  \/ \E p \in P : ReplaceSet(p)
  \/ \E p \in P : DeleteExpiredCall(p)
  \/ \E p \in P : DeleteExpiredSweep(p)
  \/ \E p \in P : RLock(p)
  \/ \E p \in P : CountCall(p)
  \/ \E p \in P : CountRead(p)
  \/ \E p \in P : FlushCall(p)
  \/ \E p \in P : FlushWrite(p)

\* Callers P using the eight operations on entries.
Crud(P, K, V, D) == Basic(P, K, V, D) \/ GetAdd(P, K, V, D) \/ Others(P, K, V, D)

\* Callers P using Save and Load.
Snap(P) ==
  \/ \E p \in P : RLock(p)
  \/ \E p \in P : SaveCall(p)
  \/ \E p \in P : SaveEncode(p)
  \/ \E p \in P, rd \in Readers(stream) : LoadCall(p, rd)
  \/ \E p \in P : LoadMerge(p)

\* The store with one caller and the sweep goroutine, on two keys.
Next == Tick \/ Reaper \/ Crud({"c1"}, Keys, Values, Durs)

Spec == Init /\ [][Next]_vars

\* Snapshots: one caller saving and loading, with payloads gob cannot register.
SnapNext == Tick \/ Basic({"c1"}, Keys, Objects, {NoExpiration, 1}) \/ Snap({"c1"})

SpecSnap == Init /\ [][SnapNext]_vars

\* Two concurrent callers and the sweep goroutine on one key.
ConcNext ==
  \/ Tick
  \/ Reaper
  \/ Basic(Callers, {"a"}, Values, {NoExpiration, 1})
  \/ GetAdd(Callers, {"a"}, Values, {NoExpiration, 1})

SpecConc == Init /\ [][ConcNext]_vars

\* Two concurrent callers and the sweep goroutine, every operation of the store.
LockNext ==
  \/ Tick
  \/ Reaper
  \/ Crud(Callers, {"a"}, {"x"}, {NoExpiration})
  \/ Snap(Callers)

SpecLock == Init /\ [][LockNext]_vars

\* gcLoop and one caller, with StopGc called by either caller.
StopNext ==
  \/ Tick
  \/ Reaper
  \/ Basic({"c1"}, {"a"}, {"x"}, {1})
  \/ \E p \in Callers : StopGcCall(p)

\* Every goroutine that can take its next step eventually takes it, and the
\* clock keeps running up to MaxTime; nothing forces a caller to call.
Continue(p) ==
  \/ Lock(p)
  \/ SetWrite(p)
  \/ DeleteWrite(p)
  \/ DeleteExpiredSweep(p)
  \/ Return(p)

StopFairness ==
  /\ WF_vars(Tick)
  /\ WF_vars(GcStart)
  /\ WF_vars(GcSelect)
  /\ \A p \in Procs : WF_vars(Continue(p))

SpecStop == Init /\ [][StopNext]_vars /\ StopFairness

\* One caller and the sweep goroutine on two keys, with entries that never
\* expire and entries that expire after one instant.
MidNext == Tick \/ Reaper \/ Crud({"c1"}, Keys, Values, {NoExpiration, 1})

SpecMid == Init /\ [][MidNext]_vars

\* One caller and the sweep goroutine on one key, for every defaultExpiration.
TtlNext == Tick \/ Reaper \/ Crud({"c1"}, {"a"}, Values, Durs)

SpecTtl == InitTtl /\ [][TtlNext]_vars

\* The sweep goroutine with a ticker that never stops, and one caller writing.
ReapNext ==
  \/ Tick
  \/ TickerFires
  \/ Reaper
  \/ Basic({"c1"}, Keys, {"x"}, {NoExpiration, 1})

\* The clock and the ticker keep running and gcLoop keeps taking its steps; a
\* goroutine waiting in mux.Lock() gets the lock if it is free again and again
\* (sync.RWMutex hands a starving waiter the lock); a goroutine holding the
\* lock runs on to its Unlock. Nothing forces a caller to call.
ReapFairness ==
  /\ WF_vars(Tick)
  /\ WF_vars(TickerFires)
  /\ WF_vars(GcStart)
  /\ WF_vars(GcSelect)
  /\ SF_vars(Lock(Gc))
  /\ WF_vars(DeleteExpiredSweep(Gc))
  /\ \A p \in Callers : WF_vars(SetWrite(p) \/ DeleteWrite(p))

SpecReap == Init /\ [][ReapNext]_vars /\ ReapFairness

\* The statements goroutine p runs between taking the lock and releasing it.
Inside(p) ==
  \/ SetWrite(p) \/ GetRead(p) \/ AddGet(p) \/ AddSet(p)
  \/ ReplaceGet(p) \/ ReplaceSet(p) \/ DeleteWrite(p) \/ DeleteExpiredSweep(p)
  \/ CountRead(p) \/ FlushWrite(p) \/ SaveEncode(p) \/ LoadMerge(p)

\* Caller p begins one of the ten operations, on a key whose entries never expire.
Begin(p) ==
  \/ SetCall(p, "a", "x", NoExpiration)
  \/ GetCall(p, "a")
  \/ AddCall(p, "a", "x", NoExpiration)
  \/ ReplaceCall(p, "a", "x", NoExpiration)
  \/ DeleteCall(p, "a")
  \/ DeleteExpiredCall(p)
  \/ CountCall(p)
  \/ FlushCall(p)
  \/ SaveCall(p)
  \/ \E rd \in Readers(stream) : LoadCall(p, rd)

\* Caller p begins one of the operations on one entry.
BeginEntryOp(p) ==
  \/ SetCall(p, "a", "x", NoExpiration)
  \/ GetCall(p, "a")
  \/ AddCall(p, "a", "x", NoExpiration)
  \/ ReplaceCall(p, "a", "x", NoExpiration)

\* NewCache called when the clock stands at MaxTime.
InitLate ==
  /\ now = MaxTime
  /\ defaultExpiration = 0
  /\ items = EmptyMap
  /\ mux = NewMutex
  /\ stopGc = NewCacheStopGc
  /\ ticker = [active |-> FALSE, next |-> 0, C |-> 0]
  /\ pc = [p \in Procs |-> IF p = Gc THEN "gc_start" ELSE "idle"]
  /\ call = [p \in Procs |-> NoCall]
  /\ loc = [p \in Procs |-> NoLoc]
  /\ ret = [p \in Procs |-> NoRet]
  /\ stream = <<>>
  /\ hist = [k \in Keys |-> NoHist]

\* The sweep goroutine with its ticker firing and two concurrent callers, one
\* using every operation of the store and one the operations on an entry, the
\* lock scheduled as sync.RWMutex schedules it.
FairNext ==
  \/ TickerFires
  \/ GcStart
  \/ GcSelect
  \/ \E p \in Procs : Announce(p)
  \/ \E p \in Procs : LockFair(p)
  \/ \E p \in Procs : Inside(p)
  \/ \E p \in Callers : Block(p)
  \/ \E p \in Callers : RLockFair(p)
  \/ Begin("c1")
  \/ BeginEntryOp("c2")
  \/ \E p \in Callers : Return(p)

\* A goroutine holding the lock runs on to its Unlock. A Lock call gets past
\* the other writers if it can again and again (sync.Mutex hands a starving
\* waiter the lock), and then takes the lock when it is free; an RLock call
\* arrives, and enters when it may. Nothing forces a caller to call.
LockFairness ==
  \A p \in Procs :
    /\ WF_vars(Inside(p))
    /\ SF_vars(Announce(p))
    /\ WF_vars(LockFair(p))
    /\ WF_vars(Block(p) \/ RLockFair(p))

SpecFair == InitLate /\ [][FairNext]_vars /\ LockFairness

\* Two callers using Set, Get, Add, Replace and DeleteExpired on one key, with
\* the sweep goroutine.
SweepNext ==
  \/ Tick
  \/ Reaper
  \/ Locks(Callers)
  \/ \E p \in Callers, d \in {NoExpiration, 1} : SetCall(p, "a", "x", d)
  \/ \E p \in Callers : SetWrite(p)
  \/ GetAdd(Callers, {"a"}, {"x"}, {NoExpiration, 1})
  \/ \E p \in Callers, d \in {NoExpiration, 1} : ReplaceCall(p, "a", "x", d)
  \/ \E p \in Callers : ReplaceGet(p)
  \/ \E p \in Callers : ReplaceSet(p)
  \/ \E p \in Callers : DeleteExpiredCall(p)
  \/ \E p \in Callers : DeleteExpiredSweep(p)

SpecSweep == Init /\ [][SweepNext]_vars

\* ------------------------------------------------------------------ claims
\* Key k has an entry in its that is not expired at instant t.
Live(its, k, t) ==
  k \in DOMAIN its /\ (its[k].Expiration = 0 \/ t <= its[k].Expiration)

\* The critical sections: between Lock and Unlock, between RLock and RUnlock.
InWriteCS(p) ==
  pc[p] \in {"Set_cs", "Add_get", "Add_set", "Replace_get", "Replace_set", "Delete_cs",
             "DeleteExpired_cs", "Flush_cs", "Load_cs"}

InReadCS(p) == pc[p] \in {"Get_cs", "Count_cs", "Save_cs"}

\* Callers p and q have both returned from overlapping Adds of one key, each
\* begun while the key had no unexpired entry.
AddsRaced(p, q) ==
  /\ pc[p] = "done" /\ pc[q] = "done"
  /\ call[p].op = "Add" /\ call[q].op = "Add"
  /\ call[p].key = call[q].key
  /\ q \in call[p].conc
  /\ call[p].free /\ call[q].free

\* The entry caller r wrote, if it wrote one, is not expired now.
WrittenStillLive(r) ==
  LET e == ResolveExpir(defaultExpiration, call[r].dur, ret[r].at)
  IN  ret[r].err = "nil" => (e = 0 \/ now <= e)

\* C1: a key whose entry was last written by Set(k, v, t) with t > 0, read at
\* instant now by Get: before setTime + t Get returns (v, true), after
\* setTime + t it returns (nil, false), whether or not a sweep ran in between
\* (setTime is the instant Set read the clock).
C1_GetFollowsDeadline ==
  [][\A p \in Callers :
       (pc[p] = "Get_cs" /\ pc'[p] = "done") =>
         LET h == hist[call[p].key]
         IN  (h.op = "Set" /\ h.ttl > 0) =>
               /\ now < h.at + h.ttl => (ret'[p].found /\ ret'[p].val = h.val)
               /\ now > h.at + h.ttl => (~ret'[p].found /\ ret'[p].val = Nil)]_vars

\* A Get has returned not-found for a key set with a positive ttl whose
\* deadline has passed and whose entry no sweep has removed yet.
C1_Witness ==
  \E p \in Callers :
    /\ pc[p] = "done" /\ call[p].op = "Get"
    /\ hist[call[p].key].op = "Set" /\ hist[call[p].key].ttl > 0
    /\ ret[p].at > hist[call[p].key].at + hist[call[p].key].ttl
    /\ ~ret[p].found
    /\ call[p].key \in DOMAIN items

\* C2: an Add that finds an unexpired entry for its key (at the instant it
\* examines the map, under the lock) returns AlreadyExists and leaves the whole
\* map as it was.
C2_AddExistingFails ==
  [][\A p \in Callers :
       (pc[p] = "Add_get" /\ pc'[p] # "Add_get" /\ Live(items, call[p].key, now)) =>
         /\ pc'[p] = "done"
         /\ ret'[p].err = "AlreadyExists"
         /\ items' = items]_vars

\* An Add has returned AlreadyExists and the stored payload is not the one it offered.
C2_Witness ==
  \E p \in Callers :
    /\ pc[p] = "done" /\ call[p].op = "Add" /\ ret[p].err = "AlreadyExists"
    /\ call[p].key \in DOMAIN items
    /\ items[call[p].key].Object # call[p].val

\* C3: two Add calls for one key that overlap, each begun while the key was
\* absent or expired, and whose written entry has not expired: exactly one
\* returned success, the other AlreadyExists, and the stored value is the
\* successful caller's. Between an Add's check and its insert no step changes
\* the map.
C3_OneAddWins ==
  /\ [](\A p, q \in Callers :
          (p # q /\ AddsRaced(p, q) /\ WrittenStillLive(p) /\ WrittenStillLive(q)) =>
            \E w \in {p, q} : \E l \in {p, q} \ {w} :
              /\ ret[w].err = "nil"
              /\ ret[l].err = "AlreadyExists"
              /\ call[w].key \in DOMAIN items
              /\ items[call[w].key].Object = call[w].val)
  /\ [][\A p \in Callers :
          (pc[p] = "Add_set" /\ pc'[p] = "Add_set") => items' = items]_vars

\* Two overlapping Adds of different values for one free key have both
\* returned, one with success and one with AlreadyExists.
C3_Witness ==
  /\ AddsRaced("c1", "c2")
  /\ call["c1"].val # call["c2"].val
  /\ ret["c1"].err = "nil"
  /\ ret["c2"].err = "AlreadyExists"

\* C4: a Replace that finds no entry, or only an expired one, for its key
\* returns NotFound and leaves the map (and so Count) as it was; one that
\* finds an unexpired entry succeeds, and a Get right after returns (v, true).
C4_ReplaceNeedsLiveEntry ==
  [][\A p \in Callers :
       /\ (pc[p] = "Replace_get" /\ pc'[p] # "Replace_get") =>
            IF Live(items, call[p].key, now)
            THEN pc'[p] = "Replace_set" /\ items' = items
            ELSE /\ pc'[p] = "done"
                 /\ ret'[p].err = "NotFound"
                 /\ items' = items
                 /\ Cardinality(DOMAIN items') = Cardinality(DOMAIN items)
       /\ (pc[p] = "Replace_set" /\ pc'[p] # "Replace_set") =>
            /\ pc'[p] = "done"
            /\ ret'[p].err = "nil"
            /\ GetBody(items', call[p].key, now') = <<call[p].val, TRUE>>]_vars

\* A Replace has returned NotFound for a key whose expired entry is still in
\* the map.
C4_Witness ==
  \E p \in Callers :
    /\ pc[p] = "done" /\ call[p].op = "Replace" /\ ret[p].err = "NotFound"
    /\ call[p].key \in DOMAIN items

\* C5: every StopGc call eventually returns to its caller.
C5_StopGcReturns ==
  \A p \in Callers : (pc[p] = "StopGc_send") ~> (pc[p] = "done")

\* C6: once a stop request has been issued, gcLoop eventually returns with its
\* ticker stopped, and stays so (no DeleteExpired of the Reaper any more).
C6_ReaperTerminates ==
  (\E p \in Callers : pc[p] = "StopGc_send")
    ~> [](pc[Gc] = "gc_exited" /\ ~ticker.active)

\* C7: a successful Load keeps the key set of the map; the entry of a key is
\* replaced by the decoded one exactly when the key is in the snapshot and its
\* entry in the map is not expired; every other entry stays as it was.
C7_LoadMergesIntoLiveKeys ==
  [][\A p \in Callers :
       (pc[p] = "Load_cs" /\ pc'[p] # "Load_cs") =>
         /\ pc'[p] = "done" /\ ret'[p].err = "nil"
         /\ DOMAIN items' = DOMAIN items
         /\ \A k \in DOMAIN items :
              IF k \in DOMAIN loc[p].items /\ Live(items, k, now)
              THEN items'[k] = loc[p].items[k]
              ELSE items'[k] = items[k]]_vars

\* A Load has returned with success although the snapshot held a key the map
\* lacks and a key whose entry in the map is expired and differs.
C7_Witness ==
  \E p \in Callers :
    /\ pc[p] = "done" /\ call[p].op = "Load" /\ ret[p].err = "nil"
    /\ \E k1, k2 \in DOMAIN loc[p].items :
         /\ k1 \notin DOMAIN items
         /\ k2 \in DOMAIN items
         /\ ~Live(items, k2, ret[p].at)
         /\ items[k2] # loc[p].items[k2]

\* C8: a Load whose reader does not hold a whole encoded map returns an error
\* at once and never reaches the merge, the map being as before; no step of a
\* Save, whether it succeeds or fails, changes the map.
C8_FailedLoadAndSaveKeepMap ==
  [][\A p \in Callers :
       /\ (pc[p] = "idle" /\ call'[p].op = "Load" /\ ~WellFormed(call'[p].rd)) =>
            /\ pc'[p] = "done"
            /\ ret'[p].err = "DeserializationError"
            /\ items' = items
       /\ (pc[p] \in {"Save_RLock", "Save_cs"} /\ pc'[p] # pc[p]) => items' = items
       /\ (pc[p] = "Save_cs" /\ pc'[p] # pc[p]) =>
            /\ pc'[p] = "done"
            /\ ret'[p].err = IF Registrable(items) THEN "nil" ELSE "SerializationError"]_vars

\* A Load of a truncated, non-empty stream has returned an error, the map
\* holding entries.
C8_Witness ==
  \E p \in Callers :
    /\ pc[p] = "done" /\ call[p].op = "Load" /\ ret[p].err = "DeserializationError"
    /\ Len(call[p].rd) >= 2
    /\ DOMAIN items # {}

\* C9: DeleteExpired, with t the instant it read the clock, removes exactly the
\* entries with Expiration > 0 and t > Expiration; every other entry keeps its
\* key, payload and expiration (in particular every entry not expired at the
\* instant of the sweep); the number of entries drops by the number removed.
C9_SweepRemovesExpiredOnly ==
  [][\A p \in Procs :
       (pc[p] = "DeleteExpired_cs" /\ pc'[p] # "DeleteExpired_cs") =>
         LET t == loc[p].now
             dead == {k \in DOMAIN items :
                        items[k].Expiration > 0 /\ t > items[k].Expiration}
         IN  /\ DOMAIN items' = (DOMAIN items) \ dead
             /\ \A k \in DOMAIN items' : items'[k] = items[k]
             /\ \A k \in DOMAIN items : Live(items, k, now) => k \in DOMAIN items'
             /\ Cardinality(DOMAIN items') =
                  Cardinality(DOMAIN items) - Cardinality(dead)]_vars

\* A caller's DeleteExpired has returned, having removed the entry a Set wrote
\* for one key and kept a never-expiring entry of another key.
C9_Witness ==
  \E p \in Callers :
    /\ pc[p] = "done" /\ call[p].op = "DeleteExpired"
    /\ \E k1, k2 \in Keys :
         /\ k1 \notin DOMAIN items /\ hist[k1].op = "Set" /\ hist[k1].ttl > 0
         /\ k2 \in DOMAIN items /\ items[k2].Expiration = 0

\* C10: a goroutine inside the critical section of a writing operation is
\* alone in a critical section; readers may be inside together; no step
\* changes the map while a reader is inside its critical section.
C10_WritersExclude ==
  /\ [](\A p, q \in Procs :
          (p # q /\ InWriteCS(p)) => (~InWriteCS(q) /\ ~InReadCS(q)))
  /\ [][(\E p \in Procs : InReadCS(p)) => items' = items]_vars

\* A Get and a Save are inside their critical sections together.
C10_Witness ==
  /\ pc["c1"] = "Get_cs" /\ pc["c2"] = "Save_cs"
  /\ mux.r = 2

\* C11: no step of a Get (the call, taking the read lock, the lookup) changes
\* the map: keys, payloads and expirations are the same before and after, also
\* when the lookup finds an expired entry and returns (nil, false); that entry
\* is still in the map when the Get has returned.
C11_GetKeepsMap ==
  [][\A p \in Callers :
       /\ (pc'[p] \in {"Get_RLock", "Get_cs"} /\ pc'[p] # pc[p]) => items' = items
       /\ (pc[p] = "Get_cs" /\ pc'[p] # pc[p]) =>
            /\ items' = items
            /\ (call[p].key \in DOMAIN items /\ ~Live(items, call[p].key, now)) =>
                 /\ ret'[p].found = FALSE /\ ret'[p].val = Nil
                 /\ call[p].key \in DOMAIN items'
                 /\ items'[call[p].key] = items[call[p].key]]_vars

\* A Get has returned not-found and the entry of its key, expired at the
\* instant of the lookup, is in the map with the payload it had.
C11_Witness ==
  \E p \in Callers :
    /\ pc[p] = "done" /\ call[p].op = "Get" /\ ~ret[p].found
    /\ call[p].key \in DOMAIN items
    /\ items[call[p].key].Expiration > 0
    /\ ret[p].at > items[call[p].key].Expiration
    /\ items[call[p].key].Object \in Values

\* C12: a Set, Add or Replace with the NoExpiration ttl stores expiration 0; an
\* entry with expiration 0 is never removed by a sweep; and as long as the
\* entry a Set(k, v, NoExpiration) wrote has not been deleted, flushed or
\* overwritten, k is in the map and every Get of k returns (v, true), at every
\* instant of the clock.
C12_NoExpirationStaysFound ==
  /\ [](\A k \in Keys :
          (hist[k].op = "Set" /\ hist[k].ttl = NoExpiration) =>
            /\ k \in DOMAIN items
            /\ \A t \in now .. MaxTime : GetBody(items, k, t) = <<hist[k].val, TRUE>>)
  /\ [][/\ \A p \in Callers :
             /\ (pc[p] \in {"Set_cs", "Add_set", "Replace_set"} /\ pc'[p] = "done"
                   /\ call[p].dur = NoExpiration) =>
                  items'[call[p].key] = Item(call[p].val, 0)
             /\ (pc[p] = "Get_cs" /\ pc'[p] = "done"
                   /\ hist[call[p].key].op = "Set"
                   /\ hist[call[p].key].ttl = NoExpiration) =>
                  (ret'[p].found /\ ret'[p].val = hist[call[p].key].val)
        /\ \A p \in Procs :
             (pc[p] = "DeleteExpired_cs" /\ pc'[p] # pc[p]) =>
               \A k \in DOMAIN items :
                 items[k].Expiration = 0 => (k \in DOMAIN items' /\ items'[k] = items[k])]_vars

\* At the last instant of the clock a Get has found the entry a Set stored with
\* NoExpiration, after a sweep removed the expired entry of the other key.
C12_Witness ==
  \E p \in Callers :
    /\ pc[p] = "done" /\ call[p].op = "Get" /\ ret[p].found /\ ret[p].at = MaxTime
    /\ hist[call[p].key].op = "Set" /\ hist[call[p].key].ttl = NoExpiration
    /\ \E k2 \in Keys \ {call[p].key} :
         /\ hist[k2].op = "Set" /\ hist[k2].ttl > 0
         /\ k2 \notin DOMAIN items

\* The expiration the ttl argument stands for, at instant t, in a store whose
\* default ttl is default.
StatedExpiresAt(default, ttl, t) ==
  IF ttl = NoExpiration THEN 0
  ELSE IF ttl = DefaultExpiration THEN (IF default > 0 THEN t + default ELSE 0)
  ELSE t + ttl

\* C13: the entry Set, Add and Replace store has the same expiration for the
\* same ttl argument: 0 for NoExpiration whatever the default ttl is; for
\* DefaultExpiration the instant plus the default ttl when that is positive and
\* 0 when it is zero or negative; the instant plus ttl for a positive ttl. The
\* instant is the one at which the operation reads the clock.
C13_TtlResolvedAlike ==
  [][\A p \in Callers :
       /\ (pc[p] = "Set_cs" /\ pc'[p] = "done") =>
            items'[call[p].key] =
              Item(call[p].val, StatedExpiresAt(defaultExpiration, call[p].dur, loc[p].now))
       /\ (pc[p] \in {"Add_set", "Replace_set"} /\ pc'[p] = "done") =>
            items'[call[p].key] =
              Item(call[p].val, StatedExpiresAt(defaultExpiration, call[p].dur, now))]_vars

\* In a store with a negative default ttl a Replace with DefaultExpiration has
\* stored an entry that never expires, after the first instant of the clock.
C13_Witness ==
  \E p \in Callers :
    /\ defaultExpiration < 0
    /\ pc[p] = "done" /\ call[p].op = "Replace" /\ ret[p].err = "nil"
    /\ call[p].dur = DefaultExpiration
    /\ ret[p].at > 1
    /\ items[call[p].key].Expiration = 0

\* C14: an Add that finds no entry for its key, or only an expired one not yet
\* swept, goes on to the insert with the map untouched, returns no error and
\* stores its payload with the expiration a Set of the same ttl would store;
\* the other keys keep their entries and a Get right after returns (v, true).
C14_AddOnFreeKeySucceeds ==
  [][\A p \in Callers :
       /\ (pc[p] = "Add_get" /\ pc'[p] # pc[p] /\ ~Live(items, call[p].key, now)) =>
            (pc'[p] = "Add_set" /\ items' = items)
       /\ (pc[p] = "Add_set" /\ pc'[p] # pc[p]) =>
            /\ pc'[p] = "done" /\ ret'[p].err = "nil"
            /\ items' = Put(items, call[p].key,
                            Item(call[p].val,
                                 StatedExpiresAt(defaultExpiration, call[p].dur, now)))
            /\ GetBody(items', call[p].key, now') = <<call[p].val, TRUE>>]_vars

\* An Add has returned no error after overwriting an expired entry that no
\* sweep had removed, and the entry in the map is the one it offered.
C14_Witness ==
  \E p \in Callers :
    /\ pc[p] = "done" /\ call[p].op = "Add" /\ ret[p].err = "nil"
    /\ ret[p].found
    /\ call[p].key \in DOMAIN items
    /\ items[call[p].key].Object = call[p].val

\* C15: the stream a successful Save writes decodes to the map that was saved,
\* payloads and absolute expirations included; a Load handed the whole stream
\* merges exactly that map: every key of it that has an unexpired entry in the
\* loading store gets the saved entry, and every key of it the loading store
\* lacks stays absent.
C15_SaveLoadRoundTrip ==
  [][\A p \in Callers :
       /\ (pc[p] = "Save_cs" /\ pc'[p] # pc[p] /\ ret'[p].err = "nil") =>
            Decode(stream') = [ok |-> TRUE, items |-> items]
       /\ (pc[p] = "idle" /\ call'[p].op = "Load" /\ call'[p].rd = stream
             /\ WellFormed(stream)) =>
            /\ pc'[p] = "Load_Lock"
            /\ loc'[p].items = Decode(stream).items
       /\ (pc[p] = "Load_cs" /\ pc'[p] # pc[p]) =>
            \A k \in DOMAIN loc[p].items :
              /\ Live(items, k, now) => items'[k] = loc[p].items[k]
              /\ k \notin DOMAIN items => k \notin DOMAIN items']_vars

\* A Load of a saved stream has returned: one saved key, whose entry has a
\* deadline, has been restored over the entry a Set had written, and the other
\* saved key, which the store lacked, is still absent.
C15_Witness ==
  \E p \in Callers :
    /\ pc[p] = "done" /\ call[p].op = "Load" /\ ret[p].err = "nil"
    /\ \E k1, k2 \in DOMAIN loc[p].items :
         /\ k1 \in DOMAIN items
         /\ items[k1] = loc[p].items[k1]
         /\ items[k1].Expiration > 0
         /\ hist[k1] = NoHist
         /\ k2 \notin DOMAIN items

\* The number of keys physically in the map.
Stored(its) == Cardinality(DOMAIN its)

\* C16: Count returns the number of keys in the map, the unexpired entries
\* plus the expired ones no sweep has removed yet, and changes nothing; a step
\* of the clock does not change that number; a step that changes it is the
\* write of a Delete, a DeleteExpired or a Flush, or the insert of a key the
\* map did not hold by a Set or an Add.
C16_CountIsPhysical ==
  [][/\ \A p \in Callers :
          (pc[p] = "Count_cs" /\ pc'[p] # pc[p]) =>
            /\ ret'[p].n = Cardinality({k \in Keys : Live(items, k, now)})
                            + Cardinality({k \in DOMAIN items : ~Live(items, k, now)})
            /\ items' = items
     /\ now' # now => items' = items
     /\ Stored(items') < Stored(items) =>
          \E p \in Procs : /\ pc[p] \in {"Delete_cs", "DeleteExpired_cs", "Flush_cs"}
                           /\ pc'[p] # pc[p]
     /\ Stored(items') > Stored(items) =>
          \E p \in Callers : /\ pc[p] \in {"Set_cs", "Add_set"}
                             /\ pc'[p] # pc[p]
                             /\ call[p].key \notin DOMAIN items]_vars

\* A Count has returned 2 at an instant when one of the two entries, still in
\* the map, had passed its deadline.
C16_Witness ==
  \E p \in Callers :
    /\ pc[p] = "done" /\ call[p].op = "Count" /\ ret[p].n = 2
    /\ Stored(items) = 2
    /\ \E k \in DOMAIN items :
         items[k].Expiration > 0 /\ ret[p].at > items[k].Expiration

\* C17: the write of Flush leaves the map empty; and when the caller's Flush
\* has returned and no insert has been issued since, the map is empty: Count
\* would return 0 and Get would return (nil, false) for every key, at this and
\* at every later instant, whatever entries the map held.
C17_FlushEmptiesStore ==
  /\ [][\A p \in Callers :
          (pc[p] = "Flush_cs" /\ pc'[p] # pc[p]) =>
            (pc'[p] = "done" /\ Stored(items') = 0)]_vars
  /\ [](\A p \in Callers :
          (pc[p] = "done" /\ call[p].op = "Flush") =>
            /\ Stored(items) = 0
            /\ \A k \in Keys, t \in now .. MaxTime : GetBody(items, k, t) = <<Nil, FALSE>>)

\* A Flush has returned after discarding two entries.
C17_Witness ==
  \E p \in Callers :
    /\ pc[p] = "done" /\ call[p].op = "Flush" /\ ret[p].n = 2
    /\ items = EmptyMap

\* C18: gcLoop, which nothing stops, answers every tick by running
\* DeleteExpired; so an entry that has passed its deadline x is eventually out
\* of the map (no longer counted by Count) or overwritten by an entry with
\* another deadline, whether or not a caller does anything.
C18_ReaperSweepsExpired ==
  /\ (ticker.C = 1) ~> (pc[Gc] = "DeleteExpired_cs")
  /\ \A k \in Keys, x \in 1 .. MaxTime :
       (k \in DOMAIN items /\ items[k].Expiration = x /\ now > x)
         ~> (k \notin DOMAIN items \/ items[k].Expiration # x)

\* The caller is idle, gcLoop is back in its select, and the entry a Set stored
\* with a positive ttl is no longer in the map: a sweep of gcLoop removed it.
C18_Witness ==
  /\ pc["c1"] = "idle" /\ pc[Gc] = "gc_select"
  /\ \E k \in Keys :
       /\ hist[k].op = "Set" /\ hist[k].ttl > 0
       /\ k \notin DOMAIN items

\* Goroutine p waits in mux.Lock() or mux.RLock().
Waiting(p) == pc[p] \in (DOMAIN AfterLock) \cup (DOMAIN AfterRLock)

\* C19: the lock is held by the goroutines inside a critical section and by no
\* one else, so every exit path, the error returns of Add and Replace included,
\* has released it; no goroutine inside a critical section asks for the lock
\* again; when all callers wait for the lock, it is free or its holder is
\* inside a critical section it will leave; and under fair scheduling of the
\* lock every call begun, and every sweep of gcLoop, comes to its end.
C19_LockReleasedCallsReturn ==
  /\ [](/\ mux.w = Cardinality({p \in Procs : InWriteCS(p)})
        /\ mux.r = Cardinality({p \in Procs : InReadCS(p)})
        /\ (\A p \in Callers : Waiting(p)) =>
             (CanLock(mux) \/ \E q \in Procs : InWriteCS(q) \/ InReadCS(q)))
  /\ [][\A p \in Procs :
          /\ (InWriteCS(p) \/ InReadCS(p)) => ~Waiting(p)'
          /\ (pc'[p] = "done" /\ pc[p] # "done") => ~(InWriteCS(p) \/ InReadCS(p))']_vars
  /\ \A p \in Callers : (pc[p] \notin {"idle", "done"}) ~> (pc[p] = "done")
  /\ (pc[Gc] = "DeleteExpired_Lock") ~> (pc[Gc] = "gc_select")

\* An Add has returned AlreadyExists and the other caller, who waited for the
\* lock, is inside the critical section of a Replace.
C19_Witness ==
  /\ pc["c1"] = "done" /\ call["c1"].op = "Add" /\ ret["c1"].err = "AlreadyExists"
  /\ pc["c2"] = "Replace_get"
  /\ mux.w = 1

\* C20: in every sweep, of a caller or of gcLoop, whatever was written between
\* the instant the sweep read the clock and the instant it runs under the
\* lock: every entry it removes is expired at the instant it is removed, and
\* every key Get would find just before the sweep it would find, with the same
\* payload, just after.
C20_SweepSparesLiveEntries ==
  [][\A p \in Procs :
       (pc[p] = "DeleteExpired_cs" /\ pc'[p] # pc[p]) =>
         /\ loc[p].now <= now
         /\ \A k \in (DOMAIN items) \ (DOMAIN items') : Expired(items[k], now)
         /\ \A k \in Keys :
              GetBody(items, k, now)[2] => GetBody(items', k, now') = GetBody(items, k, now)]_vars

\* A caller's DeleteExpired read the clock, then a Set read it at a later
\* instant and stored an entry with a deadline, then the sweep ran and
\* returned: the entry is in the map.
C20_Witness ==
  \E p \in Callers :
    /\ pc[p] = "done" /\ call[p].op = "DeleteExpired"
    /\ loc[p].now < ret[p].at
    /\ hist["a"].op = "Set" /\ hist["a"].ttl > 0 /\ hist["a"].at > loc[p].now
    /\ hist["a"].at < ret[p].at
    /\ "a" \in DOMAIN items
    /\ items["a"].Expiration >= ret[p].at

====
